---------------------------- MODULE Spec2Model ----------------------------
(***************************************************************************)
(* A model of memory_dashboard.py: the SegmentAllocator (four segments     *)
(* with an allocation cursor each, and a stack pointer) and the            *)
(* MemoryDashboard's step engine (a queue of allocation steps drained by   *)
(* Tk timer callbacks or by the Next Step button).                         *)
(*                                                                         *)
(* Python integers are unbounded, so no value is reduced modulo 2^16.      *)
(* An exception is modelled by the field "raised" of an operation's        *)
(* result; the state it leaves behind is the state at the raise.  An       *)
(* exception that leaves a button's command or an after callback is        *)
(* reported by Tk and the event loop goes on.                              *)
(*                                                                         *)
(* Left out: the widgets (log text, tree rows, labels), which no operation *)
(* reads back, and auto_delay, which only sets how long Tk waits before it *)
(* runs a scheduled callback: a scheduled callback may run at any time.    *)
(* The dialogs are modal, so no button acts while one is open.             *)
(*                                                                         *)
(* Five specifications: SpecSeg and SpecStack drive the SegmentAllocator   *)
(* directly (allocate_byte and peek_next; push_value and pop_value); Spec  *)
(* drives the dashboard from a fresh start; SpecFull drives it from a      *)
(* fresh start and from starts with one segment full or one byte short;    *)
(* SpecString applies classify_input, parse_input_to_bytes and             *)
(* prepare_allocation to one string out of a bounded set.                  *)
(***************************************************************************)
EXTENDS Integers, Sequences, FiniteSets, TLC

VARIABLES
    segments,            \* SegmentAllocator.segments: tag -> [base, next_offset, limit]
    stack_pointer,       \* SegmentAllocator.stack_pointer
    memory,              \* MemoryDashboard.memory: physical address -> byte
    registers,           \* MemoryDashboard.registers
    step_queue,          \* MemoryDashboard.step_queue: the closures not yet run
    current_byte_value,  \* MemoryDashboard.current_byte_value
    current_alloc_info,  \* MemoryDashboard.current_alloc_info
    after_id,            \* MemoryDashboard.after_id
    timers,              \* Tk: the ids of the run_auto_steps callbacks scheduled and not yet run
    executed,            \* history: <<index, phase>> of the steps run since the queue was prepared
    outcomes,            \* history: what each of those steps raised, None if nothing
    since_next,          \* history: next_step has run and allocate_auto was not invoked since
    budget,              \* driver: allocations it will still prepare
    calls,               \* driver: allocate_byte calls made since construction
    depth,               \* driver: successful pushes minus successful pops since construction
    last                 \* the last operation and its outcome

dashVars == <<memory, registers, step_queue, current_byte_value, current_alloc_info,
              after_id, timers, executed, outcomes, since_next, budget>>
vars == <<segments, stack_pointer, memory, registers, step_queue, current_byte_value,
          current_alloc_info, after_id, timers, executed, outcomes, since_next,
          budget, calls, depth, last>>

-----------------------------------------------------------------------------
(* SegmentAllocator *)

Tags == {"CS", "DS", "SS", "ES"}

CS_BASE == 4096
DS_BASE == 8192
SS_BASE == 12288
ES_BASE == 16384
SEG_LIMIT == 4095
INITIAL_SP == 65534

None == "None"

\* SegmentAllocator.__init__: the segment table
NewSegments ==
    [t \in Tags |->
        [base |-> CASE t = "CS" -> CS_BASE
                    [] t = "DS" -> DS_BASE
                    [] t = "SS" -> SS_BASE
                    [] t = "ES" -> ES_BASE,
         next_offset |-> 0,
         limit |-> SEG_LIMIT]]

\* SegmentAllocator.__init__: the stack pointer
NewStackPointer == INITIAL_SP

\* x << 4
Shl4(x) == x * 16

\* allocate_byte with the bound test off by one (<= for <)
allocate_byte_off_by_one(segs, seg_name) ==
    LET seg_info == segs[seg_name] IN
    IF seg_info.next_offset <= seg_info.limit
    THEN [segs   |-> [segs EXCEPT ![seg_name].next_offset = @ + 1],
          raised |-> None,
          ret    |-> <<seg_info.base, seg_info.next_offset>>]
    ELSE [segs   |-> segs,
          raised |-> "MemoryError: out of memory",
          ret    |-> <<>>]

\* allocate_byte(seg_name) on segment table segs:
\* the table afterwards, the exception raised and the pair returned
allocate_byte(segs, seg_name) ==
    LET seg_info == segs[seg_name] IN
    IF seg_info.next_offset < seg_info.limit
    THEN [segs   |-> [segs EXCEPT ![seg_name].next_offset = @ + 1],
          raised |-> None,
          ret    |-> <<seg_info.base, seg_info.next_offset>>]
    ELSE [segs   |-> segs,
          raised |-> "MemoryError: out of memory",
          ret    |-> <<>>]

\* peek_next with the bound test off by one (<= for <)
peek_next_off_by_one(segs, seg_name) ==
    LET seg_info == segs[seg_name] IN
    IF seg_info.next_offset <= seg_info.limit
    THEN [segs   |-> segs,
          raised |-> None,
          ret    |-> <<seg_info.base, seg_info.next_offset>>]
    ELSE [segs   |-> segs,
          raised |-> "MemoryError: out of memory",
          ret    |-> <<>>]

\* peek_next(seg_name): the table afterwards (it assigns nothing), the
\* exception raised and the pair returned
peek_next(segs, seg_name) ==
    LET seg_info == segs[seg_name] IN
    IF seg_info.next_offset < seg_info.limit
    THEN [segs   |-> segs,
          raised |-> None,
          ret    |-> <<seg_info.base, seg_info.next_offset>>]
    ELSE [segs   |-> segs,
          raised |-> "MemoryError: out of memory",
          ret    |-> <<>>]

\* push_value testing the pointer itself against the floor, not the pointer
\* after the decrement
push_value_tests_old_pointer(segs, sp) ==
    IF sp >= Shl4(segs["SS"].base)
    THEN [sp |-> sp - 2, raised |-> None, ret |-> <<sp - 2>>]
    ELSE [sp |-> sp, raised |-> "MemoryError: Stack overflow", ret |-> <<>>]

\* push_value(value): the value is not used
push_value(segs, sp) ==
    IF sp - 1 >= Shl4(segs["SS"].base)
    THEN [sp |-> sp - 2, raised |-> None, ret |-> <<sp - 2>>]
    ELSE [sp |-> sp, raised |-> "MemoryError: Stack overflow", ret |-> <<>>]

\* pop_value()
pop_value(segs, sp) ==
    IF sp < Shl4(segs["SS"].base) + segs["SS"].limit
    THEN [sp |-> sp + 2, raised |-> None, ret |-> <<sp>>]
    ELSE [sp |-> sp, raised |-> "MemoryError: Stack underflow", ret |-> <<>>]

-----------------------------------------------------------------------------
(* Text: a Python str is a sequence of one-character strings *)

\* the printable ASCII characters, in code order from 32 (code 96 is named,
\* not written)
Ascii ==
  <<
    " ", "!", "\"", "#", "$", "%", "&", "'", "(", ")", "*", "+",
    ",", "-", ".", "/", "0", "1", "2", "3", "4", "5", "6", "7",
    "8", "9", ":", ";", "<", "=", ">", "?", "@", "A", "B", "C",
    "D", "E", "F", "G", "H", "I", "J", "K", "L", "M", "N", "O",
    "P", "Q", "R", "S", "T", "U", "V", "W", "X", "Y", "Z", "[",
    "\\", "]", "^", "_", "GRAVE", "a", "b", "c", "d", "e", "f", "g",
    "h", "i", "j", "k", "l", "m", "n", "o", "p", "q", "r", "s",
    "t", "u", "v", "w", "x", "y", "z", "{", "|", "}", "~"
  >>

\* ord(c); a tab is the one character used here outside the table
Ord(c) == IF c = "\t" THEN 9 ELSE 31 + CHOOSE i \in 1..Len(Ascii) : Ascii[i] = c

\* str.upper() of one character
UpperChar(c) ==
    IF Ord(c) >= 97 /\ Ord(c) <= 122 THEN Ascii[Ord(c) - 32 - 31] ELSE c

\* str.upper()
Upper(t) == [i \in 1..Len(t) |-> UpperChar(t[i])]

IsDigitChar(c) == Ord(c) >= 48 /\ Ord(c) <= 57
IsAlphaChar(c) == (Ord(c) >= 65 /\ Ord(c) <= 90) \/ (Ord(c) >= 97 /\ Ord(c) <= 122)
IsHexChar(c) ==
    \/ IsDigitChar(c)
    \/ (Ord(c) >= 65 /\ Ord(c) <= 70)
    \/ (Ord(c) >= 97 /\ Ord(c) <= 102)

\* the value of one digit of int(t, 16) or int(t)
DigitVal(c) ==
    IF IsDigitChar(c) THEN Ord(c) - 48
    ELSE IF Ord(c) >= 97 THEN Ord(c) - 87 ELSE Ord(c) - 55

\* str.isdigit(), str.isalpha(): false of the empty string
IsDigit(t) == Len(t) > 0 /\ \A i \in 1..Len(t) : IsDigitChar(t[i])
IsAlpha(t) == Len(t) > 0 /\ \A i \in 1..Len(t) : IsAlphaChar(t[i])
AllHex(t)  == Len(t) > 0 /\ \A i \in 1..Len(t) : IsHexChar(t[i])

\* sub in t
Contains(t, sub) ==
    \E i \in 1..(Len(t) - Len(sub) + 1) : SubSeq(t, i, i + Len(sub) - 1) = sub

\* t.startswith(pre)
StartsWith(t, pre) == Len(t) >= Len(pre) /\ SubSeq(t, 1, Len(pre)) = pre

S_ES    == <<"E", "S", ":">>
S_DEST  == <<"D", "E", "S", "T">>
S_MOVS  == <<"M", "O", "V", "S">>
S_PUSH  == <<"P", "U", "S", "H">>
S_POP   == <<"P", "O", "P">>

stack_keywords == {S_PUSH, S_POP}

code_keywords ==
    { <<"M", "O", "V">>, <<"C", "A", "L", "L">>, <<"J", "M", "P">>,
      <<"A", "D", "D">>, <<"S", "U", "B">>, <<"M", "U", "L">>,
      <<"D", "I", "V">>, <<"R", "E", "T">>, <<"I", "N", "C">>,
      <<"D", "E", "C">> }

data_keywords ==
    { <<"A", "X">>, <<"B", "X">>, <<"C", "X">>, <<"D", "X">>, <<"S", "I">>,
      <<"D", "I">>, <<"B", "P">>, <<"S", "P">>, <<"D", "A", "T", "A">>,
      <<"W", "O", "R", "D">>, <<"B", "Y", "T", "E">> }

\* classify_input without token = token.upper()
classify_input_case_sensitive(tok) ==
    IF Contains(tok, S_ES) \/ Contains(tok, S_DEST) \/ StartsWith(tok, S_MOVS)
    THEN "ES"
    ELSE IF tok \in stack_keywords THEN "SS"
    ELSE IF tok \in code_keywords THEN "CS"
    ELSE IF tok \in data_keywords \/ IsAlpha(tok) \/ IsDigit(tok) THEN "DS"
    ELSE "DS"

\* classify_input(token)
classify_input(tok) ==
    LET token == Upper(tok) IN
    IF Contains(token, S_ES) \/ Contains(token, S_DEST) \/ StartsWith(token, S_MOVS)
    THEN "ES"
    ELSE IF token \in stack_keywords THEN "SS"
    ELSE IF token \in code_keywords THEN "CS"
    ELSE IF token \in data_keywords \/ IsAlpha(token) \/ IsDigit(token) THEN "DS"
    ELSE "DS"

-----------------------------------------------------------------------------
(* parse_input_to_bytes *)

\* the characters of [,\s;]; \s is also what str.strip() removes
IsSpace(c) == c \in {" ", "\t"}
IsSep(c) == IsSpace(c) \/ c \in {",", ";"}

RECURSIVE LStrip(_)
LStrip(t) == IF Len(t) > 0 /\ IsSpace(t[1]) THEN LStrip(Tail(t)) ELSE t

RECURSIVE RStrip(_)
RStrip(t) ==
    IF Len(t) > 0 /\ IsSpace(t[Len(t)]) THEN RStrip(SubSeq(t, 1, Len(t) - 1)) ELSE t

\* text.strip()
Strip(t) == RStrip(LStrip(t))

\* re.split(r"[,\s;]+", t): the pieces between the maximal runs of separators,
\* an empty piece before a leading run and after a trailing one
RECURSIVE ReSplit(_)
ReSplit(t) ==
    IF \A i \in 1..Len(t) : ~IsSep(t[i])
    THEN <<t>>
    ELSE LET i == CHOOSE k \in 1..Len(t) :
                     IsSep(t[k]) /\ \A m \in 1..(k - 1) : ~IsSep(t[m])
             after == { k \in (i + 1)..Len(t) : ~IsSep(t[k]) }
             j == IF after = {} THEN Len(t) + 1
                  ELSE CHOOSE k \in after : \A m \in after : k <= m
         IN  <<SubSeq(t, 1, i - 1)>> \o ReSplit(SubSeq(t, j, Len(t)))

\* int(t, 16) of hex digits, int(t) of decimal digits
RECURSIVE IntOf(_, _)
IntOf(t, radix) ==
    IF Len(t) = 0 THEN 0
    ELSE IntOf(SubSeq(t, 1, Len(t) - 1), radix) * radix + DigitVal(t[Len(t)])

\* the while loop: low byte first, until v is exhausted
RECURSIVE LowBytesFirst(_)
LowBytesFirst(v) ==
    IF v > 0 THEN <<v % 256>> \o LowBytesFirst(v \div 256) ELSE <<>>

\* bytes of a str under latin1
Encode(t) == [i \in 1..Len(t) |-> Ord(t[i])]

IsQuoted(t) ==
    \/ (t[1] = "\"" /\ t[Len(t)] = "\"")
    \/ (t[1] = "'" /\ t[Len(t)] = "'")

NumberBytes(v) == IF v = 0 THEN <<0>> ELSE LowBytesFirst(v)

\* the bytes one non-empty token expands to
TokenBytes(t) ==
    IF IsQuoted(t) THEN Encode(SubSeq(t, 2, Len(t) - 1))
    ELSE IF StartsWith(t, <<"0", "x">>) /\ AllHex(SubSeq(t, 3, Len(t)))
    THEN NumberBytes(IntOf(SubSeq(t, 3, Len(t)), 16))
    ELSE IF Len(t) >= 2 /\ UpperChar(t[Len(t)]) = "H" /\ AllHex(SubSeq(t, 1, Len(t) - 1))
    THEN NumberBytes(IntOf(SubSeq(t, 1, Len(t) - 1), 16))
    ELSE IF Len(t) <= 2 /\ AllHex(t)
    THEN NumberBytes(IntOf(t, 16))
    ELSE IF IsDigit(t)
    THEN NumberBytes(IntOf(t, 10))
    ELSE Encode(t)

RECURSIVE ParseTokens(_)
ParseTokens(tokens) ==
    IF Len(tokens) = 0 THEN [bytes_out |-> <<>>, cleaned_tokens |-> <<>>]
    ELSE LET t == Head(tokens)
             rest == ParseTokens(Tail(tokens))
         IN  IF Len(t) = 0 THEN rest
             ELSE [bytes_out |-> TokenBytes(t) \o rest.bytes_out,
                   cleaned_tokens |-> <<t>> \o rest.cleaned_tokens]

\* parse_input_to_bytes(text)
parse_input_to_bytes(text) == ParseTokens(ReSplit(Strip(text)))

-----------------------------------------------------------------------------
(* The allocator driven directly, one call at a time *)

\* how many calls past the last successful one the driver makes
MaxExtraCalls == 2

Op(name, arg, raised, ret) ==
    [op |-> name, arg |-> arg, raised |-> raised, ret |-> ret]

\* The dict memory. Its value is kept in two parts: "cells", the keys written
\* one by one, and "filled", runs <<lo, hi, value>> of consecutive keys that
\* all hold one value (the cells of a segment filled before the behaviour
\* starts). A key of a run is in "cells" only while it holds another value
\* than the run's, so that one dict has one representation.
EmptyMap == [filled |-> {}, cells |-> [a \in {} |-> 0]]

\* memory.keys()
MemKeys(mem) ==
    DOMAIN mem.cells \cup UNION { r[1]..r[2] : r \in mem.filled }

\* the runs holding key a
RunsAt(mem, a) == { r \in mem.filled : r[1] <= a /\ a <= r[2] }

\* memory[a], for a key a
MemGet(mem, a) ==
    IF a \in DOMAIN mem.cells THEN mem.cells[a]
    ELSE (CHOOSE r \in RunsAt(mem, a) : TRUE)[3]

\* None in current_byte_value (a byte otherwise), in current_alloc_info (a
\* triple otherwise) and in after_id (a Tk id, numbered from 1, otherwise)
NoByte == -1
NoInfo == <<>>
NoAfter == 0

\* MemoryDashboard.__init__: the registers
NewRegisters == [AX |-> 0, BX |-> 0, CX |-> 0, DX |-> 0, SP |-> INITIAL_SP]

\* MemoryDashboard.__init__
InitDashboardFields ==
    /\ memory = EmptyMap
    /\ registers = NewRegisters
    /\ step_queue = <<>>
    /\ current_byte_value = NoByte
    /\ current_alloc_info = NoInfo
    /\ after_id = NoAfter
    /\ timers = {}
    /\ executed = <<>>
    /\ outcomes = <<>>
    /\ since_next = FALSE

InitAllocator ==
    /\ segments = NewSegments
    /\ stack_pointer = NewStackPointer
    /\ InitDashboardFields
    /\ budget = 0
    /\ calls = 0
    /\ depth = 0
    /\ last = Op("construct", None, None, <<>>)

\* SegmentAllocator()
Construct ==
    /\ segments' = NewSegments
    /\ stack_pointer' = NewStackPointer
    /\ calls' = 0
    /\ depth' = 0
    /\ last' = Op("construct", None, None, <<>>)
    /\ UNCHANGED dashVars

\* the driver fills one segment at a time
OthersFresh(tag) == \A t \in Tags \ {tag} : segments[t].next_offset = 0

AllocateByte(tag) ==
    /\ OthersFresh(tag)
    /\ calls < segments[tag].limit + MaxExtraCalls
    /\ LET r == allocate_byte(segments, tag) IN
         /\ segments' = r.segs
         /\ last' = Op("allocate_byte", tag, r.raised, r.ret)
    /\ calls' = calls + 1
    /\ UNCHANGED <<stack_pointer, depth>>
    /\ UNCHANGED dashVars

PeekNext(tag) ==
    /\ LET r == peek_next(segments, tag) IN
         /\ segments' = r.segs
         /\ last' = Op("peek_next", tag, r.raised, r.ret)
    /\ UNCHANGED <<stack_pointer, calls, depth>>
    /\ UNCHANGED dashVars

PushValue ==
    /\ LET r == push_value(segments, stack_pointer) IN
         /\ stack_pointer' = r.sp
         /\ depth' = IF r.raised = None THEN depth + 1 ELSE depth
         /\ last' = Op("push_value", None, r.raised, r.ret)
    /\ UNCHANGED <<segments, calls>>
    /\ UNCHANGED dashVars

PopValue ==
    /\ LET r == pop_value(segments, stack_pointer) IN
         /\ stack_pointer' = r.sp
         /\ depth' = IF r.raised = None THEN depth - 1 ELSE depth
         /\ last' = Op("pop_value", None, r.raised, r.ret)
    /\ UNCHANGED <<segments, calls>>
    /\ UNCHANGED dashVars

NextSeg ==
    \/ Construct
    \/ \E tag \in Tags : AllocateByte(tag)
    \/ \E tag \in Tags : PeekNext(tag)

SpecSeg == InitAllocator /\ [][NextSeg]_vars

NextStack ==
    \/ Construct
    \/ PushValue
    \/ PopValue

SpecStack == InitAllocator /\ [][NextStack]_vars

-----------------------------------------------------------------------------
(* MemoryDashboard: the step engine *)

PUSH_POP_DEMO_VALUE == 4660

Phases == <<"select_segment", "show_offset", "calc_physical", "write">>

\* the dashboard's fields and Tk's scheduled callbacks, as one value
D ==
    [segments |-> segments, stack_pointer |-> stack_pointer, memory |-> memory,
     registers |-> registers, step_queue |-> step_queue,
     current_byte_value |-> current_byte_value,
     current_alloc_info |-> current_alloc_info,
     after_id |-> after_id, timers |-> timers, executed |-> executed,
     outcomes |-> outcomes]

SetD(d) ==
    /\ segments' = d.segments
    /\ stack_pointer' = d.stack_pointer
    /\ memory' = d.memory
    /\ registers' = d.registers
    /\ step_queue' = d.step_queue
    /\ current_byte_value' = d.current_byte_value
    /\ current_alloc_info' = d.current_alloc_info
    /\ after_id' = d.after_id
    /\ timers' = d.timers
    /\ executed' = d.executed
    /\ outcomes' = d.outcomes

\* update_display: peeks at every segment and swallows the exception
update_display(segs) == [t \in Tags |-> peek_next(segs, t).segs[t]]

\* dict assignment memory[phys] = value
Store(mem, phys, value) ==
    IF \E r \in RunsAt(mem, phys) : r[3] = value
    THEN [mem EXCEPT !.cells = [a \in DOMAIN @ \ {phys} |-> @[a]]]
    ELSE [mem EXCEPT !.cells =
              [a \in DOMAIN @ \cup {phys} |-> IF a = phys THEN value ELSE @[a]]]

\* step_select_segment calling allocate_byte where it calls peek_next
step_select_segment_allocates(d, step) ==
    LET r == allocate_byte(d.segments, step.seg_name) IN
    IF r.raised /= None
    THEN [d |-> [d EXCEPT !.segments = r.segs], raised |-> r.raised]
    ELSE [d |-> [d EXCEPT !.segments = update_display(r.segs),
                          !.current_byte_value = step.byte_value,
                          !.current_alloc_info = <<step.seg_name, r.ret[1], r.ret[2]>>],
          raised |-> None]

\* the closure step_select_segment of make_steps(byte_value, index, token, seg_name)
step_select_segment(d, step) ==
    LET r == peek_next(d.segments, step.seg_name) IN
    IF r.raised /= None
    THEN [d |-> [d EXCEPT !.segments = r.segs], raised |-> r.raised]
    ELSE [d |-> [d EXCEPT !.segments = update_display(r.segs),
                          !.current_byte_value = step.byte_value,
                          !.current_alloc_info = <<step.seg_name, r.ret[1], r.ret[2]>>],
          raised |-> None]

\* the closure step_show_offset: unpacks current_alloc_info and logs
step_show_offset(d, step) ==
    IF d.current_alloc_info = NoInfo
    THEN [d |-> d, raised |-> "TypeError"]
    ELSE [d |-> d, raised |-> None]

\* the closure step_calc_physical: unpacks current_alloc_info and logs
step_calc_physical(d, step) ==
    IF d.current_alloc_info = NoInfo
    THEN [d |-> d, raised |-> "TypeError"]
    ELSE [d |-> d, raised |-> None]

\* the closure step_write; seg_name is rebound from current_alloc_info
step_write(d, step) ==
    IF d.current_alloc_info = NoInfo
    THEN [d |-> d, raised |-> "TypeError"]
    ELSE
    LET seg_name == d.current_alloc_info[1]
        base == d.current_alloc_info[2]
        off == d.current_alloc_info[3]
        phys == Shl4(base) + off
        d1 == [d EXCEPT !.memory = Store(@, phys, d.current_byte_value)]
        a == allocate_byte(d1.segments, seg_name)
        d2 == [d1 EXCEPT !.segments = a.segs]
    IN  IF a.raised /= None
        THEN [d |-> d2, raised |-> a.raised]
        ELSE IF Upper(step.token) = S_PUSH /\ seg_name = "SS"
        THEN [d |-> [d2 EXCEPT !.registers.AX = PUSH_POP_DEMO_VALUE,
                               !.segments = update_display(@)],
              raised |-> None]
        ELSE IF Upper(step.token) = S_POP /\ seg_name = "SS"
        THEN LET p == pop_value(d2.segments, d2.stack_pointer) IN
             IF p.raised = None
             THEN [d |-> [d2 EXCEPT !.stack_pointer = p.sp,
                                    !.registers.BX = PUSH_POP_DEMO_VALUE,
                                    !.segments = update_display(@)],
                   raised |-> None]
             ELSE [d |-> [d2 EXCEPT !.segments = update_display(@)], raised |-> None]
        ELSE [d |-> [d2 EXCEPT !.segments = update_display(@)], raised |-> None]

\* func(): one queued closure called
call_step(d, step) ==
    LET r == CASE step.phase = "select_segment" -> step_select_segment(d, step)
               [] step.phase = "show_offset"    -> step_show_offset(d, step)
               [] step.phase = "calc_physical"  -> step_calc_physical(d, step)
               [] step.phase = "write"          -> step_write(d, step)
    IN  [d |-> [r.d EXCEPT !.executed = Append(@, <<step.index, step.phase>>),
                           !.outcomes = Append(@, r.raised)],
         raised |-> r.raised]

\* make_steps(byte_value, index, token, seg_name): the four closures, in order
make_steps(byte_value, index, token, seg_name) ==
    [j \in 1..4 |->
        [phase |-> Phases[j], byte_value |-> byte_value, index |-> index,
         token |-> token, seg_name |-> seg_name]]

Min(a, b) == IF a < b THEN a ELSE b

\* prepare_allocation(bytes_list, tokens): the new queue, over zip(bytes_list, tokens)
prepare_allocation(bytes_list, tokens) ==
    LET n == Min(Len(bytes_list), Len(tokens)) IN
    [k \in 1..(4 * n) |->
        LET i == ((k - 1) \div 4) + 1
            j == ((k - 1) % 4) + 1
        IN  make_steps(bytes_list[i], i - 1, tokens[i], classify_input(tokens[i]))[j]]

\* root.after(): Tk's ids are never reused; an id held neither by after_id nor
\* by a scheduled callback cannot be told from a new one, so the least such
\* number stands for the new id
NewAfterId(d) ==
    CHOOSE i \in 1..(Cardinality(d.timers) + 2) :
        /\ i \notin d.timers \cup {d.after_id}
        /\ \A m \in 1..(i - 1) : m \in d.timers \cup {d.after_id}

\* step_queue.pop(): the last closure, not the first
PopBack(q) == [func |-> q[Len(q)], rest |-> SubSeq(q, 1, Len(q) - 1)]

\* step_queue.pop(0)
PopFront(q) == [func |-> Head(q), rest |-> Tail(q)]

\* run_auto_steps()
run_auto_steps(d) ==
    IF d.step_queue = <<>>
    THEN [d |-> d, raised |-> None, ran |-> <<>>]
    ELSE LET p == PopFront(d.step_queue)
             r == call_step([d EXCEPT !.step_queue = p.rest], p.func)
         IN  IF r.raised /= None
             THEN [d |-> r.d, raised |-> r.raised, ran |-> <<p.func>>]
             ELSE LET id == NewAfterId(r.d) IN
                  [d |-> [r.d EXCEPT !.after_id = id, !.timers = @ \cup {id}],
                   raised |-> None, ran |-> <<p.func>>]

\* next_step()
next_step(d) ==
    LET d0 == IF d.after_id /= NoAfter
              THEN [d EXCEPT !.timers = @ \ {d.after_id}, !.after_id = NoAfter]
              ELSE d
    IN  IF d0.step_queue = <<>>
        THEN [d |-> d0, raised |-> None, ran |-> <<>>]
        ELSE LET p == PopFront(d0.step_queue)
                 r == call_step([d0 EXCEPT !.step_queue = p.rest], p.func)
             IN  [d |-> r.d, raised |-> r.raised, ran |-> <<p.func>>]

TXT_EMPTY == <<" ">>
TXT_PUSH_POP ==
    <<"P", "U", "S", "H", " ", "A", "X", ";", " ", "P", "O", "P", " ", "B", "X">>
TXT_MOV == <<"m", "o", "v", ",", "E", "S", ":", "1">>

\* what the entry may hold
Inputs == {TXT_EMPTY, TXT_PUSH_POP, TXT_MOV}

\* parse_input_to_bytes and prepare_allocation's queue over Inputs, evaluated once
Parsed == [txt \in Inputs |-> parse_input_to_bytes(txt)]
Planned ==
    [txt \in Inputs |->
        prepare_allocation(Parsed[txt].bytes_out, Parsed[txt].cleaned_tokens)]

\* allocate_auto() with the entry holding txt
allocate_auto(d, txt) ==
    LET parsed == Parsed[txt] IN
    IF parsed.bytes_out = <<>>
    THEN [d |-> d, raised |-> None, ran |-> <<>>, warned |-> TRUE]
    ELSE LET q == Planned[txt]
             r == run_auto_steps([d EXCEPT !.step_queue = q, !.executed = <<>>,
                                            !.outcomes = <<>>])
         IN  [d |-> r.d, raised |-> r.raised, ran |-> r.ran, warned |-> FALSE]

\* allocate_step_start() with the entry holding txt
allocate_step_start(d, txt) ==
    LET parsed == Parsed[txt] IN
    IF parsed.bytes_out = <<>>
    THEN [d |-> d, raised |-> None, ran |-> <<>>, warned |-> TRUE]
    ELSE LET q == Planned[txt] IN
         [d |-> [d EXCEPT !.step_queue = q, !.executed = <<>>, !.outcomes = <<>>],
          raised |-> None, ran |-> <<>>, warned |-> FALSE]

\* reset_memory without memory.clear()
reset_memory_keeps_memory(d, yes) ==
    IF yes
    THEN [d EXCEPT !.segments = NewSegments,
                   !.stack_pointer = NewStackPointer,
                   !.registers = NewRegisters]
    ELSE d

\* reset_memory() with the dialog answered yes or no
reset_memory(d, yes) ==
    IF yes
    THEN [d EXCEPT !.memory = EmptyMap,
                   !.segments = update_display(NewSegments),
                   !.stack_pointer = NewStackPointer,
                   !.registers = NewRegisters]
    ELSE d

-----------------------------------------------------------------------------
(* The dashboard driven by its buttons and by Tk's timer *)

\* allocations the driver prepares in one behaviour
MaxRuns == 2

Init ==
    /\ segments = NewSegments
    /\ stack_pointer = NewStackPointer
    /\ InitDashboardFields
    /\ budget = MaxRuns
    /\ calls = 0
    /\ depth = 0
    /\ last = Op("init", None, None, <<>>)

\* the button "Allocate (Auto Play)"
AllocateAuto(txt) ==
    /\ budget > 0
    /\ LET r == allocate_auto(D, txt) IN
         /\ SetD(r.d)
         /\ budget' = IF r.warned THEN budget ELSE budget - 1
         /\ last' = Op("allocate_auto", txt, r.raised, r.ran)
    /\ since_next' = FALSE
    /\ UNCHANGED <<calls, depth>>

\* the button "Allocate (Step)"
AllocateStepStart(txt) ==
    /\ budget > 0
    /\ LET r == allocate_step_start(D, txt) IN
         /\ SetD(r.d)
         /\ budget' = IF r.warned THEN budget ELSE budget - 1
         /\ last' = Op("allocate_step_start", txt, r.raised, r.ran)
    /\ UNCHANGED <<since_next, calls, depth>>

\* the button "Next Step"
NextStep ==
    /\ LET r == next_step(D) IN
         /\ SetD(r.d)
         /\ last' = Op("next_step", None, r.raised, r.ran)
    /\ since_next' = TRUE
    /\ UNCHANGED <<budget, calls, depth>>

\* Tk runs the scheduled callback id: run_auto_steps
TimerFires(id) ==
    /\ id \in timers
    /\ LET r == run_auto_steps([D EXCEPT !.timers = @ \ {id}]) IN
         /\ SetD(r.d)
         /\ last' = Op("timer", id, r.raised, r.ran)
    /\ UNCHANGED <<since_next, budget, calls, depth>>

\* the button "Reset Memory"
ResetMemory(yes) ==
    /\ SetD(reset_memory(D, yes))
    /\ last' = Op("reset_memory", yes, None, <<>>)
    /\ UNCHANGED <<since_next, budget, calls, depth>>

Next ==
    \/ \E txt \in Inputs : AllocateAuto(txt)
    \/ \E txt \in Inputs : AllocateStepStart(txt)
    \/ NextStep
    \/ \E id \in timers : TimerFires(id)
    \/ \E yes \in BOOLEAN : ResetMemory(yes)

Spec == Init /\ [][Next]_vars

-----------------------------------------------------------------------------
(* The dashboard with one segment filled, or one byte short of it *)

\* allocations the driver prepares once a segment is nearly full
MaxRunsFull == 1

TXT_FILL_CS == <<"M", "O", "V">>
TXT_FILL_DS == <<"A", "X">>
TXT_FILL_SS == <<"P", "U", "S", "H">>
TXT_FILL_ES == <<"E", "S", ":">>

\* a text of one token, which allocate_auto turns into one byte in tag
FillText(tag) ==
    CASE tag = "CS" -> TXT_FILL_CS
      [] tag = "DS" -> TXT_FILL_DS
      [] tag = "SS" -> TXT_FILL_SS
      [] tag = "ES" -> TXT_FILL_ES

\* the dashboard after n >= 1 times allocate_auto on FillText(tag), each run
\* left to the timer until "Allocation complete."
Filled(tag, n) ==
    LET q == prepare_allocation(parse_input_to_bytes(FillText(tag)).bytes_out,
                                parse_input_to_bytes(FillText(tag)).cleaned_tokens)
        base == NewSegments[tag].base
    IN  [segments |-> [NewSegments EXCEPT ![tag].next_offset = n],
         stack_pointer |-> NewStackPointer,
         memory |-> [EmptyMap EXCEPT
                        !.filled = {<<Shl4(base), Shl4(base) + n - 1, q[1].byte_value>>}],
         registers |-> IF tag = "SS"
                       THEN [NewRegisters EXCEPT !.AX = PUSH_POP_DEMO_VALUE]
                       ELSE NewRegisters,
         step_queue |-> <<>>,
         current_byte_value |-> q[1].byte_value,
         current_alloc_info |-> <<tag, base, n - 1>>,
         after_id |-> 2,
         timers |-> {},
         executed |-> [k \in 1..4 |-> <<0, Phases[k]>>],
         outcomes |-> [k \in 1..4 |-> None]]

InitFull ==
    \/ /\ segments = NewSegments
       /\ stack_pointer = NewStackPointer
       /\ InitDashboardFields
       /\ budget = MaxRunsFull
       /\ calls = 0
       /\ depth = 0
       /\ last = Op("init", None, None, <<>>)
    \/ \E tag \in Tags : \E n \in {SEG_LIMIT - 1, SEG_LIMIT} :
          LET d == Filled(tag, n) IN
          /\ segments = d.segments
          /\ stack_pointer = d.stack_pointer
          /\ memory = d.memory
          /\ registers = d.registers
          /\ step_queue = d.step_queue
          /\ current_byte_value = d.current_byte_value
          /\ current_alloc_info = d.current_alloc_info
          /\ after_id = d.after_id
          /\ timers = d.timers
          /\ executed = d.executed
          /\ outcomes = d.outcomes
          /\ since_next = FALSE
          /\ budget = MaxRunsFull
          /\ calls = 0
          /\ depth = 0
          /\ last = Op("timer", 2, None, <<>>)

SpecFull == InitFull /\ [][Next]_vars

-----------------------------------------------------------------------------
(* Claims about the allocator driven directly *)

OutOfMemory == "MemoryError: out of memory"
StackOverflow == "MemoryError: Stack overflow"
StackUnderflow == "MemoryError: Stack underflow"

\* C1: for every tag, the k-th consecutive allocate_byte(tag) from a fresh
\* allocator succeeds for k = 1..limit and returns (base, k - 1); the call
\* after those fails with the out-of-memory error and leaves next_offset at
\* limit.
C1_AllocateSucceedsLimitTimes ==
    last.op = "allocate_byte" =>
        LET seg == segments[last.arg] IN
        /\ calls <= seg.limit =>
              /\ last.raised = None
              /\ last.ret = <<NewSegments[last.arg].base, calls - 1>>
              /\ seg.next_offset = calls
        /\ calls > seg.limit =>
              /\ last.raised = OutOfMemory
              /\ seg.next_offset = seg.limit

\* the call after the limit-th, on any tag, has failed
C1_Witness ==
    /\ last.op = "allocate_byte"
    /\ calls = SEG_LIMIT + 1
    /\ last.raised = OutOfMemory

\* C2: peek_next(tag) changes no segment's next_offset nor the stack pointer;
\* a peek_next(tag) right after a peek_next(tag) gives the same outcome; an
\* allocate_byte(tag) right after a peek_next(tag) returns the pair the peek
\* returned, and fails exactly if the peek failed.
C2_PeekReadsOnly ==
    [][ /\ last'.op = "peek_next" =>
              /\ segments' = segments
              /\ stack_pointer' = stack_pointer
        /\ (last.op = "peek_next" /\ last'.op \in {"peek_next", "allocate_byte"}
               /\ last'.arg = last.arg) =>
              /\ last'.raised = last.raised
              /\ last'.ret = last.ret
      ]_vars

\* a peek at a full segment has failed
C2_Witness ==
    /\ last.op = "peek_next"
    /\ last.raised = OutOfMemory
    /\ segments[last.arg].next_offset = segments[last.arg].limit

\* C4 (as claimed): on a fresh allocator a push succeeds and moves the stack
\* pointer from 0xFFFE to 0xFFFC, and the pop after it succeeds, returns
\* 0xFFFC and moves the stack pointer back to 0xFFFE.
C4_PushThenPopRestores ==
    [][ /\ (last.op = "construct" /\ last'.op = "push_value") =>
              /\ last'.raised = None
              /\ stack_pointer' = INITIAL_SP - 2
        /\ (last.op = "push_value" /\ last.raised = None /\ depth = 1
               /\ last'.op = "pop_value") =>
              /\ last'.raised = None
              /\ last'.ret = <<INITIAL_SP - 2>>
              /\ stack_pointer' = INITIAL_SP
      ]_vars

\* C5 (as claimed): a pop while no push has succeeded fails with the
\* stack-underflow error and leaves the stack pointer unchanged; successful
\* pops never outnumber successful pushes.
C5_PopNeedsPush ==
    [][ /\ (depth = 0 /\ stack_pointer = INITIAL_SP /\ last'.op = "pop_value") =>
              /\ last'.raised = StackUnderflow
              /\ stack_pointer' = stack_pointer
        /\ depth' >= 0
      ]_vars

\* the floor of the stack segment, SS.base << 4
StackFloor == Shl4(segments["SS"].base)

\* C6 (as claimed): push_value fails with the stack-overflow error, the stack
\* pointer unchanged, exactly when stack_pointer - 2 is below SS.base << 4;
\* otherwise it takes 2 off the stack pointer and returns the stack pointer
\* as it was before.
C6_PushReturnsOldPointer ==
    [][ last'.op = "push_value" =>
            IF stack_pointer - 2 < StackFloor
            THEN /\ last'.raised = StackOverflow
                 /\ stack_pointer' = stack_pointer
            ELSE /\ last'.raised = None
                 /\ stack_pointer' = stack_pointer - 2
                 /\ last'.ret = <<stack_pointer>>
      ]_vars

\* C6 (amended): the same, but the value returned is the stack pointer after
\* the decrement.
C6_PushReturnsNewPointer ==
    [][ last'.op = "push_value" =>
            IF stack_pointer - 2 < StackFloor
            THEN /\ last'.raised = StackOverflow
                 /\ stack_pointer' = stack_pointer
            ELSE /\ last'.raised = None
                 /\ stack_pointer' = stack_pointer - 2
                 /\ last'.ret = <<stack_pointer - 2>>
      ]_vars

\* a push has succeeded, down to the floor itself
C6_Witness ==
    /\ last.op = "push_value"
    /\ last.raised = None
    /\ stack_pointer = StackFloor

\* C7 (as claimed): the stack pointer is always within
\* [SS.base << 4, (SS.base << 4) + SS.limit].
C7_StackPointerInSegment ==
    /\ stack_pointer >= StackFloor
    /\ stack_pointer <= StackFloor + segments["SS"].limit

-----------------------------------------------------------------------------
(* Claims about the dashboard *)

\* the operation that has just run was a queued step of the given phase
RanStep(l, phase) ==
    /\ l.op \in {"allocate_auto", "next_step", "timer"}
    /\ l.ret /= <<>>
    /\ l.ret[1].phase = phase

\* C3: every segment's next_offset stays within 0..limit, whatever runs
\* (steps, which peek, allocate and pop, and resets); it changes only by +1,
\* in a write step whose allocate_byte succeeded, or to 0 in a confirmed
\* reset.
C3_CursorWithinLimit ==
    /\ [](\A t \in Tags :
            segments[t].next_offset >= 0
            /\ segments[t].next_offset <= segments[t].limit)
    /\ [][ \A t \in Tags :
             segments'[t].next_offset /= segments[t].next_offset =>
                 \/ /\ segments'[t].next_offset = segments[t].next_offset + 1
                    /\ RanStep(last', "write")
                    /\ last'.raised = None
                 \/ /\ segments'[t].next_offset = 0
                    /\ last'.op = "reset_memory"
                    /\ last'.arg
          ]_vars

\* a write step found its segment full: allocate_byte failed at the limit
C3_Witness ==
    /\ RanStep(last, "write")
    /\ last.raised = OutOfMemory
    /\ \E t \in Tags : segments[t].next_offset = segments[t].limit

\* C8: the steps run since the queue was prepared are, in order, the four
\* phases of byte 0, then the four phases of byte 1, and so on: select_segment
\* before show_offset before calc_physical before write, and nothing of the
\* next byte before the write; whether the timer or next_step ran them.
C8_StepOrder ==
    \A k \in 1..Len(executed) :
        executed[k] = <<(k - 1) \div 4, Phases[((k - 1) % 4) + 1]>>

\* next_step has just run the write of the second byte
C8_Witness ==
    /\ Len(executed) = 8
    /\ last.op = "next_step"
    /\ last.ret /= <<>>
    /\ after_id = NoAfter

\* C9 (as claimed): next_step leaves no run_auto_steps callback scheduled, and
\* once next_step has run no timer callback runs a queued step until
\* allocate_auto is invoked again.
C9_NoTimerStepAfterNextStep ==
    /\ last.op = "next_step" => timers = {}
    /\ ~(last.op = "timer" /\ last.ret /= <<>> /\ since_next)

\* C10: a confirmed reset leaves every next_offset 0, the stack pointer
\* 0xFFFE, the memory map empty and the registers AX, BX, CX, DX 0 and SP
\* 0xFFFE; a declined reset changes no field of the dashboard.
C10_Reset ==
    [][ last'.op = "reset_memory" =>
            IF last'.arg
            THEN /\ \A t \in Tags : segments'[t].next_offset = 0
                 /\ stack_pointer' = INITIAL_SP
                 /\ MemKeys(memory') = {}
                 /\ registers' = [AX |-> 0, BX |-> 0, CX |-> 0, DX |-> 0,
                                  SP |-> INITIAL_SP]
            ELSE UNCHANGED <<segments, stack_pointer, memory, registers,
                             step_queue, current_byte_value,
                             current_alloc_info, after_id, timers>>
      ]_vars

\* a reset was confirmed after a write at a non-zero offset, with steps queued
C10_Witness ==
    /\ last.op = "reset_memory"
    /\ last.arg
    /\ current_alloc_info /= NoInfo
    /\ current_alloc_info[3] > 0
    /\ step_queue /= <<>>
    /\ MemKeys(memory) = {}

-----------------------------------------------------------------------------
(* Claims about whole inputs, errors inside steps, and the run as a whole *)

\* the write step of the plan of "PUSH AX; POP BX" bound to the token tok
WriteOf(l, tok) ==
    /\ RanStep(l, "write")
    /\ \E k \in DOMAIN Planned[TXT_PUSH_POP] : l.ret[1] = Planned[TXT_PUSH_POP][k]
    /\ Upper(l.ret[1].token) = tok

\* C11 (as claimed): from a fresh dashboard (all cursors 0, stack pointer
\* 0xFFFE) the run of "PUSH AX; POP BX" writes the PUSH byte to SS at offset
\* 0 with AX = 0x1234 and the stack pointer taken down to 0xFFFC; it writes
\* the POP byte to SS at offset 1, the pop succeeds, BX = 0x1234 and the stack
\* pointer is back at 0xFFFE.
C11_PushAxPopBx ==
    [][ /\ (WriteOf(last', S_PUSH)
               /\ \A t \in Tags : segments[t].next_offset = 0
               /\ stack_pointer = INITIAL_SP
               /\ MemKeys(memory) = {}) =>
              /\ MemKeys(memory') = {Shl4(SS_BASE)}
              /\ segments'["SS"].next_offset = 1
              /\ registers'.AX = PUSH_POP_DEMO_VALUE
              /\ stack_pointer' = INITIAL_SP - 2
        /\ (WriteOf(last', S_POP)
               /\ segments["SS"].next_offset = 1
               /\ registers.AX = PUSH_POP_DEMO_VALUE
               /\ registers.BX = 0) =>
              /\ Shl4(SS_BASE) + 1 \in MemKeys(memory')
              /\ segments'["SS"].next_offset = 2
              /\ last'.raised = None
              /\ registers'.BX = PUSH_POP_DEMO_VALUE
              /\ stack_pointer' = INITIAL_SP
      ]_vars

-----------------------------------------------------------------------------
(* classify_input, parse_input_to_bytes and prepare_allocation applied to one
   string *)

\* the longest generated string
MaxTextLen == 3

\* a hex letter, a digit, the hex suffix, a quote and two separators
TextChars == {"A", "1", "H", "'", " ", ";"}

\* str.lower, on the letters
LowerChar(c) ==
    IF Ord(c) >= 65 /\ Ord(c) <= 90 THEN Ascii[Ord(c) + 32 - 31] ELSE c

Lower(t) == [i \in 1..Len(t) |-> LowerChar(t[i])]

\* first letter as it is, the others in lower case
Capitalized(t) == [i \in 1..Len(t) |-> IF i = 1 THEN t[i] ELSE LowerChar(t[i])]

\* the keywords of classify_input and other words
Words ==
    stack_keywords \cup code_keywords \cup data_keywords
        \cup {S_ES, S_DEST, S_MOVS, <<>>, <<"1", "2">>, <<"Z", "Z">>, <<"A", "_">>}

\* what is put before and after a word
Affixes == {<<>>, <<"S">>, <<"1">>, S_ES}

\* the words in three spellings, alone and with something before or after
Tokens ==
    { pre \o w \o suf :
        pre \in Affixes, suf \in Affixes,
        w \in UNION { {u, Lower(u), Capitalized(u)} : u \in Words } }

\* the strings up to MaxTextLen over TextChars
Texts == UNION { [1..n -> TextChars] : n \in 0..MaxTextLen }

\* the strings the three functions are applied to
Strings == Texts \cup Tokens \cup Inputs

InitString ==
    /\ segments = NewSegments
    /\ stack_pointer = NewStackPointer
    /\ InitDashboardFields
    /\ budget = 0
    /\ calls = 0
    /\ depth = 0
    /\ \E s \in Strings : last = Op("input", s, None, <<>>)

\* classify_input(s)
ClassifyInput ==
    /\ last.op = "input"
    /\ last' = Op("classify_input", last.arg, None, <<classify_input(last.arg)>>)
    /\ UNCHANGED <<segments, stack_pointer, calls, depth>>
    /\ UNCHANGED dashVars

\* bytes_list, tokens = parse_input_to_bytes(s)
ParseInputToBytes ==
    /\ last.op = "input"
    /\ last' = Op("parse_input_to_bytes", last.arg, None,
                  <<parse_input_to_bytes(last.arg)>>)
    /\ UNCHANGED <<segments, stack_pointer, calls, depth>>
    /\ UNCHANGED dashVars

\* prepare_allocation(bytes_list, tokens)
PrepareAllocation ==
    /\ last.op = "parse_input_to_bytes"
    /\ LET parsed == last.ret[1] IN
         /\ step_queue' = prepare_allocation(parsed.bytes_out, parsed.cleaned_tokens)
         /\ last' = Op("prepare_allocation", last.arg, None, <<parsed>>)
    /\ UNCHANGED <<segments, stack_pointer, memory, registers, current_byte_value,
                   current_alloc_info, after_id, timers, executed, outcomes,
                   since_next,
                   budget, calls, depth>>

NextString ==
    \/ ClassifyInput
    \/ ParseInputToBytes
    \/ PrepareAllocation

SpecString == InitString /\ [][NextString]_vars

\* the non-empty pieces of the stripped text, in order
RECURSIVE NonEmpty(_)
NonEmpty(pieces) ==
    IF Len(pieces) = 0 THEN <<>>
    ELSE IF Len(Head(pieces)) = 0 THEN NonEmpty(Tail(pieces))
    ELSE <<Head(pieces)>> \o NonEmpty(Tail(pieces))

\* for every byte the tokens expand to, in order, the token it came from
RECURSIVE OriginTokens(_)
OriginTokens(tokens) ==
    IF Len(tokens) = 0 THEN <<>>
    ELSE [k \in 1..Len(TokenBytes(Head(tokens))) |-> Head(tokens)]
             \o OriginTokens(Tail(tokens))

\* C12 (as claimed): the tokenizer returns as many tokens as bytes, the k-th
\* token being the one the k-th byte came from; prepare_allocation then plans
\* four steps for every byte, each byte classified by its own token.
C12_ParallelSequences ==
    LET origin == OriginTokens(NonEmpty(ReSplit(Strip(last.arg)))) IN
    /\ last.op = "parse_input_to_bytes" =>
          /\ Len(last.ret[1].bytes_out) = Len(last.ret[1].cleaned_tokens)
          /\ last.ret[1].cleaned_tokens = origin
    /\ last.op = "prepare_allocation" =>
          /\ Len(step_queue) = 4 * Len(last.ret[1].bytes_out)
          /\ \A k \in 1..Len(step_queue) :
                LET i == ((k - 1) \div 4) + 1 IN
                /\ step_queue[k].byte_value = last.ret[1].bytes_out[i]
                /\ step_queue[k].phase = Phases[((k - 1) % 4) + 1]
                /\ i <= Len(origin) => step_queue[k].seg_name = classify_input(origin[i])

\* what classify_input returns over Tokens
ClassifyRange == { classify_input(t) : t \in Tokens }

\* C13: classify_input never fails and is onto {CS, DS, SS, ES}; with the
\* token folded to upper case, a token containing "ES:" or "DEST" or starting
\* with "MOVS" gives ES; otherwise one equal to PUSH or POP gives SS;
\* otherwise one equal to MOV, CALL, JMP, ADD, SUB, MUL, DIV, RET, INC or DEC
\* gives CS; every other token, the empty one too, gives DS. The spelling's
\* case does not matter.
C13_ClassifyRules ==
    /\ ClassifyRange = {"CS", "DS", "SS", "ES"}
    /\ last.op = "classify_input" =>
          LET u == Upper(last.arg) IN
          /\ last.raised = None
          /\ last.ret[1] = classify_input(Lower(last.arg))
          /\ last.ret[1] = classify_input(u)
          /\ last.ret[1] =
                IF \/ Contains(u, <<"E", "S", ":">>)
                   \/ Contains(u, <<"D", "E", "S", "T">>)
                   \/ StartsWith(u, <<"M", "O", "V", "S">>)
                THEN "ES"
                ELSE IF u \in {<<"P", "U", "S", "H">>, <<"P", "O", "P">>}
                THEN "SS"
                ELSE IF u \in {<<"M", "O", "V">>, <<"C", "A", "L", "L">>,
                               <<"J", "M", "P">>, <<"A", "D", "D">>,
                               <<"S", "U", "B">>, <<"M", "U", "L">>,
                               <<"D", "I", "V">>, <<"R", "E", "T">>,
                               <<"I", "N", "C">>, <<"D", "E", "C">>}
                THEN "CS"
                ELSE "DS"

\* a lower-case "pop" before "ES:" went to ES, not to SS
C13_Witness ==
    /\ last.op = "classify_input"
    /\ last.arg = Lower(S_POP) \o S_ES
    /\ last.ret = <<"ES">>

\* the select_segment step of byte index i has run and failed on a full segment
SelectFailed(i) ==
    \E k \in 1..Len(executed) :
        /\ executed[k] = <<i, "select_segment">>
        /\ outcomes[k] = OutOfMemory

\* no cell of the memory map and no cursor changes in this step
NothingCommitted ==
    /\ memory' = memory
    /\ \A t \in Tags : segments'[t].next_offset = segments[t].next_offset

\* C14 (as claimed): a select_segment step that finds its segment full
\* commits nothing, and neither do the show_offset, calc_physical and write
\* steps of the same byte, which never act on an earlier byte's context; the
\* failure does not end a continuous run: while steps are queued the next
\* callback is scheduled.
C14_SelectFailureAbandonsByte ==
    [][ /\ (RanStep(last', "select_segment") /\ last'.raised = OutOfMemory) =>
              /\ NothingCommitted
              /\ (last'.op \in {"allocate_auto", "timer"} /\ step_queue' /= <<>>) =>
                    after_id' \in timers'
        /\ \A ph \in {"show_offset", "calc_physical", "write"} :
              (RanStep(last', ph) /\ SelectFailed(last'.ret[1].index)) =>
                  NothingCommitted
      ]_vars


\* the select_segment step of byte index i has run and recorded its preview
SelectSucceeded(i) ==
    \E k \in 1..Len(executed) :
        /\ executed[k] = <<i, "select_segment">>
        /\ outcomes[k] = None

\* C16 (as claimed): when the write step of a byte runs after that byte's
\* select_segment step recorded a preview (segment, base, offset), whatever
\* the user did in between, the segment's cursor is still at the previewed
\* offset: allocate_byte succeeds and returns the previewed (base, offset),
\* and the byte is in the memory map at (base << 4) + offset.
C16_PreviewEqualsCommit ==
    [][ (RanStep(last', "write") /\ SelectSucceeded(last'.ret[1].index)) =>
            LET step == last'.ret[1]
                info == current_alloc_info
                a == allocate_byte(segments, step.seg_name)
            IN  /\ info[1] = step.seg_name
                /\ a.raised = None
                /\ a.ret = <<info[2], info[3]>>
                /\ last'.raised = None
                /\ segments'[step.seg_name].next_offset = info[3] + 1
                /\ Shl4(info[2]) + info[3] \in MemKeys(memory')
                /\ MemGet(memory', Shl4(info[2]) + info[3]) = step.byte_value
      ]_vars


\* the keys of the memory map that this step adds, removes or gives another value
ChangedCells ==
    { a \in MemKeys(memory) \cup MemKeys(memory') :
        \/ a \notin MemKeys(memory)
        \/ a \notin MemKeys(memory')
        \/ MemGet(memory, a) /= MemGet(memory', a) }

\* the segments whose cursor this step moves
MovedCursors == { t \in Tags : segments'[t].next_offset /= segments[t].next_offset }

\* C17: a select_segment, show_offset or calc_physical step changes no
\* cursor, not the stack pointer, no cell of the memory map and no register;
\* a write step changes at most one cell and at most one cursor, by +1, the
\* stack pointer only if its token is POP (which goes to SS), and of the
\* registers only AX and BX.
C17_OnlyWriteCommits ==
    [][ /\ \A ph \in {"select_segment", "show_offset", "calc_physical"} :
              RanStep(last', ph) =>
                  /\ MovedCursors = {}
                  /\ stack_pointer' = stack_pointer
                  /\ ChangedCells = {}
                  /\ registers' = registers
        /\ RanStep(last', "write") =>
              /\ Cardinality(ChangedCells) <= 1
              /\ Cardinality(MovedCursors) <= 1
              /\ \A t \in MovedCursors :
                    segments'[t].next_offset = segments[t].next_offset + 1
              /\ stack_pointer' /= stack_pointer =>
                    /\ Upper(last'.ret[1].token) = S_POP
                    /\ last'.ret[1].seg_name = "SS"
              /\ registers'.CX = registers.CX
              /\ registers'.DX = registers.DX
              /\ registers'.SP = registers.SP
      ]_vars

\* the write step of the POP byte has run: one cell, the SS cursor, the stack
\* pointer and BX have changed
C17_Witness ==
    /\ RanStep(last, "write")
    /\ Upper(last.ret[1].token) = S_POP
    /\ last.raised = None
    /\ stack_pointer = INITIAL_SP + 2
    /\ registers.BX = PUSH_POP_DEMO_VALUE
    /\ segments["SS"].next_offset = 2
    /\ Shl4(SS_BASE) + 1 \in MemKeys(memory)


\* <<index, phase>> of a queued step
StepKey(step) == <<step.index, step.phase>>

\* the steps run since the queue was prepared, then the steps still queued
RunThenQueued == executed \o [k \in 1..Len(step_queue) |-> StepKey(step_queue[k])]

\* the allocator, the memory map and the registers are as in d
CommittedAs(d) ==
    /\ segments' = d.segments
    /\ stack_pointer' = d.stack_pointer
    /\ memory' = d.memory
    /\ registers' = d.registers

\* next_step cancels the pending callback, takes exactly the head off the
\* queue and runs it; the cancellation adds no change of its own
NextStepFrame ==
    last'.op = "next_step" =>
        /\ after_id' = NoAfter
        /\ timers' = timers \ {after_id}
        /\ IF step_queue = <<>>
           THEN /\ step_queue' = <<>>
                /\ last'.ret = <<>>
                /\ CommittedAs(D)
           ELSE /\ step_queue' = Tail(step_queue)
                /\ last'.ret = <<Head(step_queue)>>
                /\ CommittedAs(call_step(D, Head(step_queue)).d)

\* the steps run and the steps queued are together the plan, each step once
\* and in the plan's order
EachStepOnceInOrder ==
    \A k \in 1..Len(RunThenQueued) :
        RunThenQueued[k] = <<(k - 1) \div 4, Phases[((k - 1) % 4) + 1]>>

\* C18 (as claimed): the cancellation in next_step takes no step off the
\* queue and changes nothing of the allocator, the memory map or the
\* registers; every step of a prepared allocation runs at most once and in
\* queue order; once next_step has cancelled the run, the steps that remain
\* are run by next_step, one per trigger and in order, and by nothing else
\* until allocate_auto starts a run again.
C18_CancelKeepsQueue ==
    /\ []EachStepOnceInOrder
    /\ [][ /\ NextStepFrame
           /\ (since_next /\ last'.op = "timer") => last'.ret = <<>>
         ]_vars


\* C19 (as claimed), in the form a finite run can refute: a continuous run
\* keeps itself going. After every step that allocate_auto or a timer
\* callback has run, the next callback is scheduled, so that, the timer
\* firing, the steps are all run and the queue becomes empty.
C19_RunReschedulesItself ==
    [][ (last'.op \in {"allocate_auto", "timer"} /\ last'.ret /= <<>>) =>
            after_id' \in timers'
      ]_vars


\* the physical addresses below the cursors
BelowCursors ==
    UNION { { Shl4(segments[t].base) + o : o \in 0..(segments[t].next_offset - 1) } :
            t \in Tags }

\* C20 (as claimed): in every reachable state the keys of the memory map are
\* exactly the addresses (S.base << 4) + o with 0 <= o < S.next_offset, for
\* the four segments S; and a write step never stores to a key the map
\* already holds.
C20_MapMatchesCursors ==
    /\ [](MemKeys(memory) = BelowCursors)
    /\ [][ RanStep(last', "write") =>
              \A a \in MemKeys(memory) :
                  a \in MemKeys(memory') /\ MemGet(memory', a) = MemGet(memory, a)
         ]_vars

=============================================================================
